---- MODULE Spec2Model ----
(* Model of SecurityConferenceCrawler (src/tool.py): the sequential crawl   *)
(* run -> process_conference -> download_paper -> verify_pdf_link, the file *)
(* store it writes and the network answers it reacts to.                    *)
(* Strings are sequences of one-character strings; a few long literal       *)
(* pieces of the listing URLs are kept as single atoms.                     *)
EXTENDS Integers, Sequences, FiniteSets, TLC

\* ------------------------------------------------------------------ bounds
MaxYear == 2011      \* largest value of datetime.now().year considered
BodyChunks == 1      \* number of 8 KiB chunks in a response body
MaxAnchors == 3      \* largest number of <a> elements of a parsed page

\* ------------------------------------------------------- program constants
start_year == 2010
ConferenceDelay == 2  \* seconds of the pause in run
DownloadDelay == 1    \* seconds of the pause in process_conference

None == "None"

\* ----------------------------------------------------------------- strings
DotPdf == <<".", "p", "d", "f">>
Pdf == <<"p", "d", "f">>

\* str.lower(), on the characters the model uses
LowerChar(c) ==
  CASE c = "P" -> "p"
    [] c = "D" -> "d"
    [] c = "F" -> "f"
    [] c = "A" -> "a"
    [] c = "T" -> "t"
    [] OTHER -> c

lower(s) == [i \in 1..Len(s) |-> LowerChar(s[i])]

\* str.endswith
endswith(s, suf) ==
  /\ Len(s) >= Len(suf)
  /\ SubSeq(s, Len(s) - Len(suf) + 1, Len(s)) = suf

\* the `in` operator on strings
contains(s, sub) ==
  \E i \in 1..(Len(s) - Len(sub) + 1) : SubSeq(s, i, i + Len(sub) - 1) = sub

\* str.strip(): leading and trailing blanks removed
RECURSIVE lstrip(_)
lstrip(s) == IF s # <<>> /\ Head(s) = " " THEN lstrip(Tail(s)) ELSE s

RECURSIVE rstrip(_)
rstrip(s) ==
  IF s # <<>> /\ s[Len(s)] = " " THEN rstrip(SubSeq(s, 1, Len(s) - 1)) ELSE s

strip(s) == rstrip(lstrip(s))

Digit(n) == CASE n = 0 -> "0" [] n = 1 -> "1" [] n = 2 -> "2" [] n = 3 -> "3"
              [] n = 4 -> "4" [] n = 5 -> "5" [] n = 6 -> "6" [] n = 7 -> "7"
              [] n = 8 -> "8" [] n = 9 -> "9"

\* str(n) for a natural number
RECURSIVE str(_)
str(n) == IF n < 10 THEN <<Digit(n)>> ELSE str(n \div 10) \o <<Digit(n % 10)>>

\* s[-2:]
last2(s) == IF Len(s) <= 2 THEN s ELSE SubSeq(s, Len(s) - 1, Len(s))

\* position of the last "/" of s, 0 when there is none
RECURSIVE rfindSlash(_)
rfindSlash(s) ==
  IF s = <<>> THEN 0
  ELSE IF s[Len(s)] = "/" THEN Len(s) ELSE rfindSlash(SubSeq(s, 1, Len(s) - 1))

\* position of the first "?" or "#" of s, Len(s) + 1 when there is none
RECURSIVE findQuery(_, _)
findQuery(s, i) ==
  IF i > Len(s) THEN i
  ELSE IF s[i] \in {"?", "#"} THEN i ELSE findQuery(s, i + 1)

\* ------------------------------------------------------------ URL Generator
Conferences == <<"USENIX", "SP", "CCS", "NDSS">>

ListingUrlFullYear(conf, year) ==
  CASE conf = "USENIX" ->
         <<"https:", "/", "/", "www.usenix.org", "/", "conference", "/",
           "usenixsecurity">> \o str(year) \o <<"/", "technical-sessions">>
    [] conf = "SP" ->
         <<"https:", "/", "/", "www.ieee-security.org", "/", "TC", "/", "SP">>
           \o str(year) \o <<"/", "program.html">>
    [] conf = "CCS" ->
         <<"https:", "/", "/", "www.sigsac.org", "/", "ccs", "/", "CCS">>
           \o str(year) \o <<"/", "accepted-papers.html">>
    [] conf = "NDSS" ->
         <<"https:", "/", "/", "www.ndss-symposium.org", "/">>
           \o str(year) \o <<"/", "accepted-papers", "/">>

\* the listing URL of one conference and year, per the f-string templates
ListingUrl(conf, year) ==
  CASE conf = "USENIX" ->
         <<"https:", "/", "/", "www.usenix.org", "/", "conference", "/",
           "usenixsecurity">> \o last2(str(year)) \o <<"/", "technical-sessions">>
    [] conf = "SP" ->
         <<"https:", "/", "/", "www.ieee-security.org", "/", "TC", "/", "SP">>
           \o str(year) \o <<"/", "program.html">>
    [] conf = "CCS" ->
         <<"https:", "/", "/", "www.sigsac.org", "/", "ccs", "/", "CCS">>
           \o str(year) \o <<"/", "accepted-papers.html">>
    [] conf = "NDSS" ->
         <<"https:", "/", "/", "www.ndss-symposium.org", "/">>
           \o str(year) \o <<"/", "accepted-papers", "/">>

\* range(a, b) as the sequence a, a+1, ..., b-1
range(a, b) == [i \in 1..(IF b > a THEN b - a ELSE 0) |-> a + i - 1]

\* range(start_year, self.current_year + 1)
YearRangeShort(cy) == range(start_year, cy)

YearRange(cy) == range(start_year, cy + 1)

generate_conference_urls(cy) ==
  [c \in {Conferences[k] : k \in 1..Len(Conferences)} |->
     [i \in 1..Len(YearRange(cy)) |-> ListingUrl(c, YearRange(cy)[i])]]

\* ----------------------------------------------------------- Link Extractor
\* urljoin(base, href) for the three reference shapes the pages use:
\* an absolute URL, a root-relative path, a path relative to the base
urljoin(base, href) ==
  IF href # <<>> /\ Head(href) = "https:" THEN href
  ELSE IF href # <<>> /\ Head(href) = "/" THEN SubSeq(base, 1, 4) \o href
  ELSE SubSeq(base, 1, rfindSlash(base)) \o href

\* os.path.basename(urlparse(url).path)
basename_of_path(url) ==
  LET path == SubSeq(url, 5, findQuery(url, 5) - 1)
  IN SubSeq(path, rfindSlash(path) + 1, Len(path))

IllegalChars == {"<", ">", ":", "\"", "/", "\\", "|", "?", "*"}

\* re.sub(r'[<>:"/\\|?*]', '_', title)
sanitize(title) ==
  [i \in 1..Len(title) |-> IF title[i] \in IllegalChars THEN "_" ELSE title[i]]

is_pdf_href_suffix_only(href) == endswith(lower(href), DotPdf)

is_pdf_href(href) == endswith(lower(href), DotPdf) \/ contains(lower(href), Pdf)

link_title(text, full_url) ==
  sanitize(IF strip(text) # <<>> THEN strip(text) ELSE basename_of_path(full_url))

\* anchors is the sequence of <a> elements of the page, in document order
RECURSIVE extract_pdf_links(_, _)
extract_pdf_links(anchors, base_url) ==
  IF anchors = <<>> THEN <<>>
  ELSE LET a == Head(anchors)
           rest == extract_pdf_links(Tail(anchors), base_url)
           full_url == urljoin(base_url, a.href)
       IN IF a.href = <<>> THEN rest
          ELSE IF is_pdf_href(a.href)
               THEN <<[url |-> full_url, title |-> link_title(a.text, full_url)]>> \o rest
               ELSE rest

\* ------------------------------------------------------------- exceptions
\* subclasses of requests.exceptions.RequestException
RequestExceptions == {"ConnectionError", "Timeout", "HTTPError", "ChunkedEncodingError"}

\* every exception kind of the model; OSError is no RequestException
Exceptions == RequestExceptions \cup {"OSError"}

\* response.raise_for_status(): HTTPError for a 4xx or 5xx status
raise_for_status(status) ==
  IF status >= 400 /\ status < 600 THEN "HTTPError" ELSE None

\* ------------------------------------------------------------- environment
\* what the network answers to the HEAD probe
ContentTypes == {<<"application/", "P", "D", "F">>, <<"text/", "h", "t", "m", "l">>}

HeadOutcomes ==
  [exc : {"ConnectionError", "Timeout"}, status : {0}, ctype : {<<>>}]
    \cup [exc : {None}, status : {200, 206, 404}, ctype : ContentTypes]

\* what the network answers to a GET
GetOutcomes ==
  [exc : {"ConnectionError", "Timeout"}, status : {0}]
    \cup [exc : {None}, status : {200, 404, 500}]

\* failures of one step of the body stream or of the file write
WriteFailures == {"ChunkedEncodingError", "OSError"}

Anchor(h, t) == [href |-> h, text |-> t]

APaper1 == Anchor(<<"a", ".", "p", "d", "f">>, <<"T">>)
APaper2 == Anchor(<<"b", ".", "p", "d", "f">>, <<" ", "T", " ">>)
AAbout == Anchor(<<"/", "a", "b", "o", "u", "t">>, <<"A">>)
AQuery == Anchor(<<"/", "d", ".", "P", "D", "F", "?", "v">>, <<" ">>)
AColon == Anchor(<<"e", ".", "p", "d", "f">>, <<"x", ":", "y">>)
ANoHref == Anchor(<<>>, <<"T">>)

\* the listing pages the sites serve, each the sequence of its <a> elements
Pages ==
  { <<>>,
    <<AAbout>>,
    <<APaper1, AAbout, APaper2>>,
    <<ANoHref, AQuery>>,
    <<AColon>> }

\* ------------------------------------------------------------------- state
VARIABLES
  current_year,     \* self.current_year
  conference_urls,  \* run's local: the generated listing URLs
  fs,               \* the store: file path |-> [url, n], n chunks of url's body
  r,                \* run's frame: pc, conference index ci, enumerate index i
  p,                \* process_conference's frame
  d,                \* download_paper's frame
  v,                \* verify_pdf_link's frame
  attempted,        \* the (conference, year) pairs handed to process_conference
  pauses,           \* seconds this run has spent in its time.sleep(2) calls
  paper_page,       \* the (conference, year) whose listing page links papers, if any
  dirs              \* the directories that exist under download_dir

vars == <<current_year, conference_urls, fs, r, p, d, v, attempted, pauses, paper_page, dirs>>

IdleDl ==
  [pc |-> "idle", url |-> <<>>, conf |-> None, year |-> 0, title |-> <<>>,
   existed |-> FALSE, valid |-> FALSE, heads |-> 0, gets |-> 0, opened |-> FALSE, k |-> 0, exc |-> None, ret |-> FALSE]

IdleVerify == [pc |-> "idle", head |-> None, ret |-> FALSE, exc |-> None]

IdleProc ==
  [pc |-> "idle", conf |-> None, url |-> <<>>, year |-> 0, pdf_links |-> <<>>,
   page |-> <<>>, li |-> 1, success_count |-> 0, calls |-> 0, slept |-> 0,
   results |-> <<>>, exc |-> None, ret |-> 0]

\* filepath = download_dir/conf_name/{year}_{title}.pdf
filepath(conf_name, year, title) ==
  [dir |-> conf_name, name |-> str(year) \o <<"_">> \o title \o DotPdf]

\* the conference directories setup_directory creates
setup_conferences_three == {"USENIX", "SP", "CCS"}

setup_conferences == {"USENIX", "SP", "CCS", "NDSS"}

\* setup_directory(): download_dir and the conference directories are
\* created where missing; ds is the set of directories already there
setup_directory(ds) == ds \cup {"."} \cup setup_conferences

Init ==
  /\ current_year \in (start_year - 1)..MaxYear
  /\ conference_urls = generate_conference_urls(start_year - 1)
  /\ fs = << >>
  /\ r = [pc |-> "start", ci |-> 1, i |-> 0]
  /\ p = IdleProc
  /\ d = IdleDl
  /\ v = IdleVerify
  /\ attempted = <<>>
  /\ pauses = 0
  /\ paper_page = {}
  /\ dirs = setup_directory({})

\* ----------------------------------------------------------- Link Validator
\* except requests.exceptions.RequestException
CaughtByVerifyTimeoutOnly(e) == e = "Timeout"

CaughtByVerify(e) == e \in RequestExceptions

verify_pdf_link_any_status(h, url) ==
  IF h.exc # None
  THEN [pc |-> "ret", head |-> h, ret |-> FALSE, exc |-> None]
  ELSE [pc |-> "ret", head |-> h,
        ret |-> \/ contains(lower(h.ctype), Pdf)
                \/ endswith(lower(url), DotPdf),
        exc |-> None]

\* the body of verify_pdf_link(url) when the HEAD probe answers h: the
\* frame it ends in, returning ret or letting the exception exc out
verify_pdf_link(h, url) ==
  IF h.exc # None
  THEN IF CaughtByVerify(h.exc)
       THEN [pc |-> "ret", head |-> h, ret |-> FALSE, exc |-> None]
       ELSE [pc |-> "raised", head |-> h, ret |-> FALSE, exc |-> h.exc]
  ELSE [pc |-> "ret", head |-> h,
        ret |-> /\ h.status = 200
                /\ \/ contains(lower(h.ctype), Pdf)
                   \/ endswith(lower(url), DotPdf),
        exc |-> None]

\* self.session.head(url, timeout=10) and what follows it
verify_pdf_link_head ==
  /\ v.pc = "head"
  /\ \E h \in HeadOutcomes : v' = verify_pdf_link(h, d.url)
  /\ d' = [d EXCEPT !.heads = @ + 1]
  /\ UNCHANGED <<current_year, conference_urls, fs, r, p, attempted, pauses, paper_page, dirs>>

\* --------------------------------------------------------------- Downloader
\* except Exception
CaughtByDownloadRequestOnly(e) == e \in RequestExceptions

CaughtByDownload(e) == e \in Exceptions

\* an exception e raised inside download_paper's try block
download_paper_except(f, e) ==
  IF CaughtByDownload(e)
  THEN [f EXCEPT !.pc = "ret", !.ret = FALSE, !.exc = e]
  ELSE [f EXCEPT !.pc = "raised", !.exc = e]

\* if not self.verify_pdf_link(url)
link_rejected_never(valid) == FALSE

link_rejected(valid) == ~valid

\* os.path.exists(filepath)
path_exists_never(path, files) == FALSE

path_exists_always(path, files) == TRUE

path_exists(path, files) == path \in DOMAIN files

d_path == filepath(d.conf, d.year, d.title)

\* the call self.verify_pdf_link(url)
download_paper_verify ==
  /\ d.pc = "verify"
  /\ v.pc = "idle"
  /\ v' = [IdleVerify EXCEPT !.pc = "head"]
  /\ UNCHANGED <<current_year, conference_urls, fs, r, p, d, attempted, pauses, paper_page, dirs>>

\* verify_pdf_link came back: if not ...: return False
download_paper_verified ==
  /\ d.pc = "verify"
  /\ v.pc \in {"ret", "raised"}
  /\ d' = IF v.pc = "raised" THEN download_paper_except(d, v.exc)
          ELSE IF link_rejected(v.ret)
               THEN [d EXCEPT !.pc = "ret", !.ret = FALSE, !.valid = v.ret]
               ELSE [d EXCEPT !.pc = "exists", !.valid = v.ret]
  /\ v' = IdleVerify
  /\ UNCHANGED <<current_year, conference_urls, fs, r, p, attempted, pauses, paper_page, dirs>>

\* the already-downloaded check
download_paper_exists ==
  /\ d.pc = "exists"
  /\ d' = IF path_exists(d_path, fs)
          THEN [d EXCEPT !.pc = "ret", !.ret = TRUE]
          ELSE [d EXCEPT !.pc = "get"]
  /\ UNCHANGED <<current_year, conference_urls, fs, r, p, v, attempted, pauses, paper_page, dirs>>

\* self.session.get(url, stream=True); response.raise_for_status()
download_paper_get ==
  /\ d.pc = "get"
  /\ \E o \in GetOutcomes :
       LET f == [d EXCEPT !.gets = @ + 1]
           e == IF o.exc # None THEN o.exc ELSE raise_for_status(o.status)
       IN d' = IF e # None THEN download_paper_except(f, e)
               ELSE [f EXCEPT !.pc = "open"]
  /\ UNCHANGED <<current_year, conference_urls, fs, r, p, v, attempted, pauses, paper_page, dirs>>

\* open(filepath, 'wb'): creates the file, or truncates it, or fails
download_paper_open ==
  /\ d.pc = "open"
  /\ \/ /\ d_path.dir \in dirs
        /\ fs' = (d_path :> [url |-> d.url, n |-> 0]) @@ fs
        /\ d' = [d EXCEPT !.pc = "write", !.opened = TRUE, !.k = 0]
     \/ /\ d' = download_paper_except(d, "OSError")
        /\ UNCHANGED fs
  /\ UNCHANGED <<current_year, conference_urls, r, p, v, attempted, pauses, paper_page, dirs>>

\* one turn of the iter_content loop: a chunk is written, or the stream or
\* the write fails; after the last chunk the file is closed and True returned
download_paper_write ==
  /\ d.pc = "write"
  /\ \/ /\ d.k < BodyChunks
        /\ fs' = [fs EXCEPT ![d_path].n = @ + 1]
        /\ d' = [d EXCEPT !.k = @ + 1]
     \/ /\ d.k < BodyChunks
        /\ \E e \in WriteFailures : d' = download_paper_except(d, e)
        /\ UNCHANGED fs
     \/ /\ d.k = BodyChunks
        /\ d' = [d EXCEPT !.pc = "ret", !.ret = TRUE]
        /\ UNCHANGED fs
  /\ UNCHANGED <<current_year, conference_urls, r, p, v, attempted, pauses, paper_page, dirs>>

\* ------------------------------------------------------ Conference Processor
\* except requests.exceptions.RequestException
CaughtByProcessHTTPErrorOnly(e) == e = "HTTPError"

CaughtByProcess(e) == e \in RequestExceptions

\* an exception e raised inside process_conference's try block
process_conference_except(f, e) ==
  IF CaughtByProcess(e)
  THEN [f EXCEPT !.pc = "ret", !.ret = 0, !.exc = e]
  ELSE [f EXCEPT !.pc = "raised", !.exc = e]

\* self.session.get(url); response.raise_for_status(); extract_pdf_links.
\* The store paths of different (conference, year) pairs are disjoint, so the
\* sites are taken to link papers from one listing page, whichever it is.
process_conference_get ==
  /\ p.pc = "get"
  /\ \/ /\ \E o \in GetOutcomes :
             LET e == IF o.exc # None THEN o.exc ELSE raise_for_status(o.status)
             IN /\ e # None
                /\ p' = process_conference_except(p, e)
        /\ UNCHANGED paper_page
     \/ \E page \in Pages :
          LET links == extract_pdf_links(page, p.url)
          IN /\ links # <<>> => paper_page \subseteq {<<p.conf, p.year>>}
             /\ paper_page' = IF links # <<>> THEN {<<p.conf, p.year>>} ELSE paper_page
             /\ p' = [p EXCEPT !.pc = "iter", !.page = page, !.pdf_links = links,
                               !.li = 1, !.success_count = 0]
  /\ UNCHANGED <<current_year, conference_urls, fs, r, d, v, attempted, pauses, dirs>>

\* for pdf_url, title in pdf_links: the call of download_paper
process_conference_call ==
  /\ p.pc = "iter"
  /\ p.li <= Len(p.pdf_links)
  /\ LET l == p.pdf_links[p.li]
     IN d' = [IdleDl EXCEPT !.pc = "verify", !.url = l.url, !.conf = p.conf,
                            !.year = p.year, !.title = l.title,
                            !.existed = filepath(p.conf, p.year, l.title) \in DOMAIN fs]
  /\ p' = [p EXCEPT !.pc = "call", !.calls = @ + 1]
  /\ UNCHANGED <<current_year, conference_urls, fs, r, v, attempted, pauses, paper_page, dirs>>

\* if self.download_paper(...): success_count += 1
count_every_call(count, ok) == count + 1

count_success(count, ok) == IF ok THEN count + 1 ELSE count

\* time.sleep(1) is a statement of the loop body, outside the if: it runs
\* after every download_paper call, whatever the call returned
sleep_after_success_only(ok) == ok

sleep_after(ok) == TRUE

\* download_paper came back: count a success, or pass its exception on;
\* results keeps what each call of this page returned and did
process_conference_counted ==
  /\ p.pc = "call"
  /\ d.pc \in {"ret", "raised"}
  /\ p' = IF d.pc = "raised" THEN process_conference_except(p, d.exc)
          ELSE [p EXCEPT !.pc = IF sleep_after(d.ret) THEN "sleep" ELSE "iter",
                         !.li = IF sleep_after(d.ret) THEN @ ELSE @ + 1,
                         !.success_count = count_success(@, d.ret),
                         !.results = Append(@, [ret |-> d.ret, valid |-> d.valid,
                                                opened |-> d.opened])]
  /\ d' = IdleDl
  /\ UNCHANGED <<current_year, conference_urls, fs, r, v, attempted, pauses, paper_page, dirs>>

\* time.sleep(1)
process_conference_sleep ==
  /\ p.pc = "sleep"
  /\ p' = [p EXCEPT !.pc = "iter", !.li = @ + 1, !.slept = @ + DownloadDelay]
  /\ UNCHANGED <<current_year, conference_urls, fs, r, d, v, attempted, pauses, paper_page, dirs>>

\* return success_count
process_conference_return ==
  /\ p.pc = "iter"
  /\ p.li > Len(p.pdf_links)
  /\ p' = [p EXCEPT !.pc = "ret", !.ret = p.success_count]
  /\ UNCHANGED <<current_year, conference_urls, fs, r, d, v, attempted, pauses, paper_page, dirs>>

\* ------------------------------------------------------- Crawl Orchestrator
\* year = 2010 + i
year_of_from_second(i) == 2011 + i

year_of(i) == 2010 + i

\* time.sleep(2) is a statement of the inner loop's body: it runs after the
\* i-th of the n listing URLs of a conference, for every i
pause_after_last_year_only(i, n) == i = n - 1

pause_after(i, n) == TRUE

r_conf == Conferences[r.ci]

\* conference_urls = self.generate_conference_urls()
run_start ==
  /\ r.pc = "start"
  /\ conference_urls' = generate_conference_urls(current_year)
  /\ r' = [pc |-> "loop", ci |-> 1, i |-> 0]
  /\ UNCHANGED <<current_year, fs, p, d, v, attempted, pauses, paper_page, dirs>>

\* the inner loop's next url: process_conference(conf_name, url, year)
run_call ==
  /\ r.pc = "loop"
  /\ r.ci <= Len(Conferences)
  /\ r.i < Len(conference_urls[r_conf])
  /\ IF year_of(r.i) > current_year
     THEN /\ r' = [r EXCEPT !.ci = @ + 1, !.i = 0]
          /\ UNCHANGED <<p, attempted>>
     ELSE /\ p' = [IdleProc EXCEPT !.pc = "get", !.conf = r_conf,
                                   !.url = conference_urls[r_conf][r.i + 1],
                                   !.year = year_of(r.i)]
          /\ attempted' = Append(attempted, <<r_conf, year_of(r.i)>>)
          /\ r' = [r EXCEPT !.pc = "call"]
  /\ UNCHANGED <<current_year, conference_urls, fs, d, v, pauses, paper_page, dirs>>

\* process_conference came back
run_counted ==
  /\ r.pc = "call"
  /\ p.pc \in {"ret", "raised"}
  /\ r' = IF p.pc = "raised" THEN [r EXCEPT !.pc = "crashed"]
          ELSE IF pause_after(r.i, Len(conference_urls[r_conf]))
               THEN [r EXCEPT !.pc = "sleep"]
               ELSE [r EXCEPT !.pc = "loop", !.i = @ + 1]
  /\ p' = IdleProc
  /\ UNCHANGED <<current_year, conference_urls, fs, d, v, attempted, pauses, paper_page, dirs>>

\* time.sleep(2)
run_sleep ==
  /\ r.pc = "sleep"
  /\ pauses' = pauses + ConferenceDelay
  /\ r' = [r EXCEPT !.pc = "loop", !.i = @ + 1]
  /\ UNCHANGED <<current_year, conference_urls, fs, p, d, v, attempted, paper_page, dirs>>

\* the inner loop is exhausted: the next conference
run_next_conference ==
  /\ r.pc = "loop"
  /\ r.ci <= Len(Conferences)
  /\ r.i >= Len(conference_urls[r_conf])
  /\ r' = [r EXCEPT !.ci = @ + 1, !.i = 0]
  /\ UNCHANGED <<current_year, conference_urls, fs, p, d, v, attempted, pauses, paper_page, dirs>>

\* the outer loop is exhausted: run returns
run_done ==
  /\ r.pc = "loop"
  /\ r.ci > Len(Conferences)
  /\ r' = [r EXCEPT !.pc = "done"]
  /\ UNCHANGED <<current_year, conference_urls, fs, p, d, v, attempted, pauses, paper_page, dirs>>

\* main() is started again, later, on the same download directory
main_again ==
  /\ r.pc = "done"
  /\ current_year' \in current_year..MaxYear
  /\ r' = [pc |-> "start", ci |-> 1, i |-> 0]
  /\ attempted' = <<>>
  /\ pauses' = 0
  /\ dirs' = setup_directory(dirs)
  /\ UNCHANGED <<conference_urls, fs, p, d, v, paper_page>>

Next ==
  \/ run_start
  \/ run_call
  \/ run_counted
  \/ run_sleep
  \/ run_next_conference
  \/ run_done
  \/ main_again
  \/ process_conference_get
  \/ process_conference_call
  \/ process_conference_counted
  \/ process_conference_sleep
  \/ process_conference_return
  \/ download_paper_verify
  \/ verify_pdf_link_head
  \/ download_paper_verified
  \/ download_paper_exists
  \/ download_paper_get
  \/ download_paper_open
  \/ download_paper_write

Spec == Init /\ [][Next]_vars

\* A started run is one thread of sequential statements, none of which waits
\* on anything but a network call, which returns or fails: a run that can
\* take its next step takes it. Nothing obliges main to be started again.
FairSpec == Spec /\ WF_vars(r.pc # "done" /\ Next)

\* ------------------------------------------- Link Extractor on its own
\* extract_pdf_links is a pure function of the page and the base URL: here
\* it is applied to every page of at most MaxAnchors elements.
ASlash == Anchor(<<"p", "d", "f", "/">>, <<>>)
AStar == Anchor(<<"g", ".", "P", "d", "F">>, <<"*", "?", " ", "<">>)

AnchorSet == {APaper1, APaper2, AAbout, AQuery, AColon, ANoHref, ASlash, AStar}

AllPages == UNION {[1..k -> AnchorSet] : k \in 0..MaxAnchors}

BaseUrls == {ListingUrl("USENIX", start_year), ListingUrl("NDSS", start_year)}

InitExtract ==
  /\ current_year = start_year
  /\ conference_urls = generate_conference_urls(start_year)
  /\ fs = << >>
  /\ r = [pc |-> "call", ci |-> 1, i |-> 0]
  /\ \E page \in AllPages, base \in BaseUrls :
       p = [IdleProc EXCEPT !.pc = "parse", !.url = base, !.page = page]
  /\ d = IdleDl
  /\ v = IdleVerify
  /\ attempted = <<>>
  /\ pauses = 0
  /\ paper_page = {}
  /\ dirs = setup_directory({})

\* pdf_links = self.extract_pdf_links(response.text, url)
extract_pdf_links_applied ==
  /\ p.pc = "parse"
  /\ p' = [p EXCEPT !.pc = "iter", !.pdf_links = extract_pdf_links(p.page, p.url)]
  /\ UNCHANGED <<current_year, conference_urls, fs, r, d, v, attempted, pauses, paper_page, dirs>>

NextExtract == extract_pdf_links_applied

SpecExtract == InitExtract /\ [][NextExtract]_vars

\* ------------------------------------------------------------------ claims
\* In IdleDl.existed the frame records whether the target file was there
\* when download_paper was called; heads and gets count the HEAD and GET
\* requests of the call, opened tells that the call has opened the file.

\* C1: a download_paper call whose target file already exists issues no
\* network request at all, neither the HEAD probe nor the GET.
C1_ExistingTargetNoRequest == d.existed => (d.heads = 0 /\ d.gets = 0)

\* C2: a download_paper call whose target file already exists returns True,
\* whatever the probe of the URL answers.
C2_ExistingTargetReturnsTrue == (d.pc = "ret" /\ d.existed) => d.ret

\* C3: when download_paper returns False for a target that did not exist
\* before the call, no file exists at the target after the call.
C3_FailureLeavesNoFile ==
  (d.pc = "ret" /\ ~d.existed /\ ~d.ret) => d_path \notin DOMAIN fs

\* C4: within a download_paper call the GET and the opening of the file
\* happen only after the probe of the call returned True; when the probe
\* returned False the call returns False, with no GET and no file created.
C4_FetchOnlyAfterValidation ==
  /\ (d.gets > 0 \/ d.opened) => (d.valid /\ d.heads = 1)
  /\ (d.pc = "ret" /\ ~d.valid) =>
       /\ ~d.ret
       /\ d.gets = 0
       /\ ~d.opened
       /\ ~d.existed => d_path \notin DOMAIN fs

C4_Fetched == d.pc = "write" /\ d.gets = 1 /\ d.valid /\ d_path \in DOMAIN fs

C6_ExistingFileUntouched ==
  [][\A f \in DOMAIN fs :
       /\ f \in DOMAIN fs'
       /\ fs'[f] # fs[f] => (d.opened /\ ~d.existed /\ d_path = f)]_vars

C6_FoundAndKept ==
  /\ d.pc = "ret"
  /\ d.existed
  /\ d.ret
  /\ fs[d_path].n = BodyChunks
  /\ fs[d_path].url # d.url

\* C7: run hands the pairs (conference, year), start_year <= year <=
\* current_year, to process_conference once each, conference by conference
\* and in ascending year order, and no other pair.
ExpectedAttempts(cy) ==
  LET n == IF cy >= start_year THEN cy - start_year + 1 ELSE 0
  IN [k \in 1..(Len(Conferences) * n) |->
        <<Conferences[((k - 1) \div n) + 1], start_year + ((k - 1) % n)>>]

C7_EachPairOnceInOrder ==
  LET E == ExpectedAttempts(current_year)
  IN /\ Len(attempted) <= Len(E)
     /\ attempted = SubSeq(E, 1, Len(attempted))
     /\ r.pc = "done" => attempted = E
     /\ p.pc # "idle" =>
          /\ attempted[Len(attempted)] = <<p.conf, p.year>>
          /\ p.url = ListingUrl(p.conf, p.year)

C7_AllAttempted ==
  /\ r.pc = "done"
  /\ current_year = start_year + 1
  /\ Len(attempted) = 2 * Len(Conferences)

C9_NoPauseBetweenYears ==
  r.pc = "sleep" => r.i + 1 >= Len(conference_urls[r_conf])

\* C9 as amended: run pauses 2 seconds after every process_conference call,
\* so also between two successive years of the same conference.
C9_PauseAfterEveryPair ==
  /\ r.pc \in {"loop", "done"} => pauses = ConferenceDelay * Len(attempted)
  /\ r.pc \in {"call", "sleep"} => pauses = ConferenceDelay * (Len(attempted) - 1)

C9_PauseBetweenYears ==
  /\ r.pc = "sleep"
  /\ r.i + 1 < Len(conference_urls[r_conf])

\* C10: verify_pdf_link never raises; when the HEAD probe fails (timeout,
\* connection error) or answers a non-success status it returns False.
C10_VerifyNeverRaises ==
  /\ v.pc # "raised"
  /\ (v.pc = "ret" /\ (v.head.exc # None \/ v.head.status \notin 200..299)) => ~v.ret

C10_ProbeTimedOut == v.pc = "ret" /\ v.head.exc = "Timeout" /\ ~v.ret

\* C11: verify_pdf_link returns True only if the HEAD probe answered with a
\* success status and the Content-Type contains "pdf" or the URL ends in
\* ".pdf" (letter case ignored); in every other case it returns False.
C11_TrueOnlyForPdfSuccess ==
  (v.pc = "ret" /\ v.ret) =>
    /\ v.head.exc = None
    /\ v.head.status \in 200..299
    /\ \/ contains(lower(v.head.ctype), Pdf)
       \/ endswith(lower(d.url), DotPdf)

C11_ValidByContentType ==
  /\ v.pc = "ret"
  /\ v.ret
  /\ v.head.status = 200
  /\ ~endswith(lower(d.url), DotPdf)

\* C12: whenever download_paper returns True, a file exists at the target
\* path download_dir/conf_name/{year}_{title}.pdf at that moment.
C12_TrueMeansFilePresent ==
  (d.pc = "ret" /\ d.ret) =>
    [dir |-> d.conf, name |-> str(d.year) \o <<"_">> \o d.title \o DotPdf] \in DOMAIN fs

C12_DownloadedNow ==
  /\ d.pc = "ret"
  /\ d.ret
  /\ ~d.existed
  /\ d.opened
  /\ fs[d_path] = [url |-> d.url, n |-> BodyChunks]

\* C13: process_conference pauses 1 second after every download_paper call,
\* so before the k-th call for a listing page it has paused k - 1 times,
\* whatever the earlier calls returned.
C13_PauseBetweenDownloads ==
  /\ p.pc = "call" => p.slept = DownloadDelay * (p.calls - 1)
  /\ p.pc = "sleep" => p.slept = DownloadDelay * (p.calls - 1)
  /\ (p.pc = "iter" /\ p.exc = None) => p.slept = DownloadDelay * p.calls

C13_PausedAfterFailure ==
  /\ p.pc = "call"
  /\ p.calls = 2
  /\ p.slept = DownloadDelay
  /\ ~p.results[1].ret

\* C14: generate_conference_urls returns, for each of USENIX, SP, CCS and
\* NDSS, exactly current_year - start_year + 1 listing URLs, the i-th being
\* the conference's template filled with the year start_year + i.
C14_Y4(y) ==
  <<Digit(y \div 1000), Digit((y \div 100) % 10), Digit((y \div 10) % 10), Digit(y % 10)>>

C14_Y2(y) == <<Digit((y \div 10) % 10), Digit(y % 10)>>

C14_Template(c, y) ==
  IF c = "USENIX"
  THEN <<"https:", "/", "/", "www.usenix.org", "/", "conference", "/", "usenixsecurity">>
         \o C14_Y2(y) \o <<"/", "technical-sessions">>
  ELSE IF c = "SP"
  THEN <<"https:", "/", "/", "www.ieee-security.org", "/", "TC", "/", "SP">>
         \o C14_Y4(y) \o <<"/", "program.html">>
  ELSE IF c = "CCS"
  THEN <<"https:", "/", "/", "www.sigsac.org", "/", "ccs", "/", "CCS">>
         \o C14_Y4(y) \o <<"/", "accepted-papers.html">>
  ELSE <<"https:", "/", "/", "www.ndss-symposium.org", "/">>
         \o C14_Y4(y) \o <<"/", "accepted-papers", "/">>

C14_UrlsPerConference ==
  r.pc # "start" =>
    /\ DOMAIN conference_urls = {"USENIX", "SP", "CCS", "NDSS"}
    /\ \A c \in DOMAIN conference_urls :
         /\ Len(conference_urls[c]) = current_year - start_year + 1
         /\ \A i \in 1..Len(conference_urls[c]) :
              conference_urls[c][i] = C14_Template(c, start_year + i - 1)

C14_TwoYearsGenerated ==
  /\ r.pc = "loop"
  /\ current_year = start_year + 1
  /\ Len(conference_urls["USENIX"]) = 2
  /\ conference_urls["USENIX"][2][9] = "1"
  /\ conference_urls["USENIX"][2][10] = "1"

\* C15: whenever download_paper is about to open, or has opened, its target
\* file for writing, the directory download_dir/conf_name of the file
\* exists; so does the directory of every conference run is processing.
C15_DirectoryExistsBeforeWrite ==
  /\ (d.pc = "open" \/ d.opened) => d.conf \in dirs
  /\ r.pc \in {"call", "sleep"} => Conferences[r.ci] \in dirs

C15_WritingIntoDirectory ==
  /\ d.pc = "write"
  /\ d.opened
  /\ d.conf = "NDSS"
  /\ "NDSS" \in dirs

\* C16: for a page of N anchors, M of them with an href that ends in .pdf
\* or contains "pdf" (letter case ignored), extract_pdf_links returns exactly
\* M entries, the k-th for the k-th such anchor, and no returned title holds
\* one of the characters < > : " / \ | ? *.
C16_PdfLike(a) ==
  \/ endswith(lower(a.href), <<".", "p", "d", "f">>)
  \/ contains(lower(a.href), <<"p", "d", "f">>)

C16_OnePerPdfAnchor ==
  p.pc = "iter" =>
    LET sel == SelectSeq(p.page, C16_PdfLike)
    IN /\ Len(p.pdf_links) = Len(sel)
       /\ \A k \in 1..Len(p.pdf_links) :
            /\ p.pdf_links[k].url = urljoin(p.url, sel[k].href)
            /\ \A j \in 1..Len(p.pdf_links[k].title) :
                 p.pdf_links[k].title[j]
                   \notin {"<", ">", ":", "\"", "/", "\\", "|", "?", "*"}

C16_TwoOfThree ==
  /\ p.pc = "iter"
  /\ p.page = <<AColon, AAbout, AQuery>>
  /\ Len(p.pdf_links) = 2
  /\ p.pdf_links[1].title = <<"x", "_", "y">>
  /\ p.pdf_links[2].title = <<"d", ".", "P", "D", "F">>

\* C17: after a successful listing fetch process_conference calls
\* download_paper once per extracted link, in extraction order, also after a
\* call that returned False, and returns the number of calls that returned
\* True, a number between 0 and the number of links.
C17_OneCallPerLinkCounted ==
  /\ p.pc = "call" =>
       /\ p.calls = p.li
       /\ Len(p.results) = p.li - 1
       /\ d.url = p.pdf_links[p.li].url
       /\ d.title = p.pdf_links[p.li].title
       /\ d.conf = p.conf
       /\ d.year = p.year
  /\ (p.pc = "ret" /\ p.exc = None) =>
       /\ p.calls = Len(p.pdf_links)
       /\ Len(p.results) = Len(p.pdf_links)
       /\ p.ret = Cardinality({i \in 1..Len(p.results) : p.results[i].ret})
       /\ p.ret >= 0
       /\ p.ret <= Len(p.pdf_links)

C17_WentOnAfterFailure ==
  /\ p.pc = "ret"
  /\ Len(p.pdf_links) = 2
  /\ ~p.results[1].ret
  /\ p.results[2].ret
  /\ p.ret = 1

\* The j-th link of the page being processed is an earlier link with the
\* title of the link now being downloaded and another URL.
C18_Collides(j) ==
  /\ p.pdf_links[j].title = d.title
  /\ p.pdf_links[j].url # d.url

\* C18 as stated: when two links of different URLs and the same conference,
\* year and title both pass validation and are downloaded one after the
\* other, the second call issues no GET, returns True and leaves the file
\* holding the first URL's content.
C18_SecondNeverFetched ==
  (p.pc = "call" /\ d.pc = "ret" /\ d.valid) =>
    \A j \in 1..(p.li - 1) :
      (C18_Collides(j) /\ p.results[j].valid) =>
        /\ d.gets = 0
        /\ d.ret
        /\ d_path \in DOMAIN fs
        /\ fs[d_path].url = p.pdf_links[j].url

\* C18 as amended: the same, when moreover the first call's GET succeeded
\* and the call created the file.
C18_SecondSkippedAfterFirstWrote ==
  (p.pc = "call" /\ d.pc = "ret" /\ d.valid) =>
    \A j \in 1..(p.li - 1) :
      (C18_Collides(j) /\ p.results[j].valid /\ p.results[j].opened) =>
        /\ d.gets = 0
        /\ ~d.opened
        /\ d.ret
        /\ d_path \in DOMAIN fs
        /\ fs[d_path].url = p.pdf_links[j].url

C18_FirstWriteWon ==
  /\ p.pc = "call"
  /\ p.li = 2
  /\ d.pc = "ret"
  /\ d.valid
  /\ C18_Collides(1)
  /\ p.results[1].opened
  /\ p.results[1].ret
  /\ d.gets = 0
  /\ d.ret
  /\ fs[d_path] = [url |-> p.pdf_links[1].url, n |-> BodyChunks]

\* C19: whatever the outcomes of the individual requests, a run that has
\* started eventually reaches its terminal state, and there every
\* (conference, year) pair has been attempted.
C19_RunTerminates ==
  (r.pc = "start") ~> (r.pc = "done" /\ attempted = ExpectedAttempts(current_year))

C19_TerminatedAfterMixedOutcomes ==
  /\ r.pc = "done"
  /\ current_year = start_year
  /\ attempted = ExpectedAttempts(start_year)
  /\ \E f \in DOMAIN fs : fs[f].n = BodyChunks

====
